---- MODULE Spec2Model ----
(***************************************************************************)
(* Model of src/app/extract_outline.py: PDFOutlineExtractor and            *)
(* process_pdfs.                                                           *)
(*                                                                         *)
(* Text is a sequence of one-character strings.  Font sizes are integers   *)
(* in hundredths of a point (rounded sizes: tenths of a point), positions  *)
(* are integers in layout units, frequencies are exact fractions           *)
(* [num, den].                                                             *)
(***************************************************************************)
EXTENDS Integers, Sequences, FiniteSets, TLC

VARIABLES
    pc,            \* position of the run being modelled
    doc,           \* the PDF: [toc, title, pages, height, width]
    embedded,      \* what _extract_pymupdf_outline returned
    result,        \* the dict extract_outline is building / has returned
    stagesRun,     \* stages entered so far
    raised,        \* stages whose body raised
    artifact,      \* what process_pdfs wrote
    cleanIn,       \* argument of _clean_heading_text
    cleanOut,      \* its value
    cleanTwice,    \* its value on its own value
    stats,         \* FontSizeStat mapping, in insertion order
    heading_fonts, \* value of _identify_heading_fonts
    chars,         \* argument of _group_by_line
    lines          \* its value

vars == <<pc, doc, embedded, result, stagesRun, raised, artifact,
          cleanIn, cleanOut, cleanTwice, stats, heading_fonts, chars, lines>>

orchVars == <<doc, embedded, result, stagesRun, raised, artifact>>
cleanVars == <<cleanIn, cleanOut, cleanTwice>>
fontVars == <<stats, heading_fonts>>
lineVars == <<chars, lines>>

(***************************************************************************)
(* Program constants (PDFOutlineExtractor.__init__ and literals).          *)
(***************************************************************************)
font_size_threshold == 20
min_heading_chars == 3
max_heading_chars == 200
max_title_chars == 200
line_threshold == 5
max_title_lines == 10
max_toc_level == 3
max_heading_level == 3
FreqLow == [num |-> 1, den |-> 1000]
FreqHigh == [num |-> 1, den |-> 10]

(***************************************************************************)
(* Characters and strings.                                                 *)
(***************************************************************************)
UpperChars == <<"A","B","C","D","E","F","G","H","I","J","K","L","M",
                "N","O","P","Q","R","S","T","U","V","W","X","Y","Z">>
LowerChars == <<"a","b","c","d","e","f","g","h","i","j","k","l","m",
                "n","o","p","q","r","s","t","u","v","w","x","y","z">>

Lower(c) ==
    IF \E i \in 1..Len(UpperChars) : UpperChars[i] = c
    THEN LowerChars[CHOOSE i \in 1..Len(UpperChars) : UpperChars[i] = c]
    ELSE c

IsSpace(c) == c \in {" ", "\t", "\n"}
IsDigit(c) == c \in {"0","1","2","3","4","5","6","7","8","9"}

Min2(a, b) == IF a <= b THEN a ELSE b
Abs(n) == IF n < 0 THEN -n ELSE n

RECURSIVE SplitRec(_, _, _, _)
SplitRec(t, i, cur, words) ==
    IF i > Len(t)
    THEN IF cur = <<>> THEN words ELSE Append(words, cur)
    ELSE IF IsSpace(t[i])
         THEN SplitRec(t, i + 1, <<>>, IF cur = <<>> THEN words ELSE Append(words, cur))
         ELSE SplitRec(t, i + 1, Append(cur, t[i]), words)

\* str.split()
Split(t) == SplitRec(t, 1, <<>>, <<>>)

RECURSIVE Join(_)
\* ' '.join(words)
Join(words) ==
    IF words = <<>> THEN <<>>
    ELSE IF Len(words) = 1 THEN words[1]
    ELSE words[1] \o <<" ">> \o Join(Tail(words))

\* ' '.join(text.split())
Collapse(t) == Join(Split(t))

RECURSIVE SkipSpaces(_, _)
\* first index >= i of t that is not whitespace
SkipSpaces(t, i) == IF i <= Len(t) /\ IsSpace(t[i]) THEN SkipSpaces(t, i + 1) ELSE i

RECURSIVE SkipDigits(_, _)
SkipDigits(t, i) == IF i <= Len(t) /\ IsDigit(t[i]) THEN SkipDigits(t, i + 1) ELSE i

RECURSIVE BackSpaces(_, _)
\* last index <= i of t that is not whitespace (0 if none)
BackSpaces(t, i) == IF i >= 1 /\ IsSpace(t[i]) THEN BackSpaces(t, i - 1) ELSE i

RECURSIVE BackDigits(_, _)
BackDigits(t, i) == IF i >= 1 /\ IsDigit(t[i]) THEN BackDigits(t, i - 1) ELSE i

\* str.strip()
Strip(t) ==
    LET a == SkipSpaces(t, 1)
        b == BackSpaces(t, Len(t))
    IN  IF a > b THEN <<>> ELSE SubSeq(t, a, b)

\* t starts with word w, ignoring case
StartsWithI(t, w) ==
    /\ Len(t) >= Len(w)
    /\ \A i \in 1..Len(w) : Lower(t[i]) = Lower(w[i])

\* t ends with word w, ignoring case
EndsWithI(t, w) ==
    /\ Len(t) >= Len(w)
    /\ \A i \in 1..Len(w) : Lower(t[Len(t) - Len(w) + i]) = Lower(w[i])

PrefixWords == << <<"C","h","a","p","t","e","r">>,
                  <<"S","e","c","t","i","o","n">>,
                  <<"P","a","r","t">> >>

\* length of the match of ^(Chapter|Section|Part)\s*\d*\.?\s* (IGNORECASE), 0 if none
PrefixMatchLen(t) ==
    IF \E k \in 1..Len(PrefixWords) : StartsWithI(t, PrefixWords[k])
    THEN LET k  == CHOOSE j \in 1..Len(PrefixWords) :
                       /\ StartsWithI(t, PrefixWords[j])
                       /\ \A h \in 1..(j - 1) : ~StartsWithI(t, PrefixWords[h])
             i1 == SkipSpaces(t, Len(PrefixWords[k]) + 1)
             i2 == SkipDigits(t, i1)
             i3 == IF i2 <= Len(t) /\ t[i2] = "." THEN i2 + 1 ELSE i2
             i4 == SkipSpaces(t, i3)
         IN  i4 - 1
    ELSE 0

\* re.sub(r'^(Chapter|Section|Part)\s*\d*\.?\s*', '', t, flags=re.IGNORECASE)
StripPrefix(t) == SubSeq(t, PrefixMatchLen(t) + 1, Len(t))

\* re.sub(r'\s+\d+\s*$', '', t)
StripTrailingNumber(t) ==
    LET a == BackSpaces(t, Len(t))
        b == BackDigits(t, a)
        c == BackSpaces(t, b)
    IN  IF b < a /\ c < b THEN SubSeq(t, 1, c) ELSE t

\* the length test of _clean_heading_text and of the line filters
InHeadingBounds(n) == min_heading_chars <= n /\ n <= max_heading_chars

\* _clean_heading_text
CleanHeadingText(text) ==
    LET t == StripPrefix(Collapse(text))
    IN  IF InHeadingBounds(Len(t)) THEN StripTrailingNumber(t) ELSE <<>>

TitleSuffixes == << <<".","p","d","f">>, <<".","d","o","c","x">>, <<".","d","o","c">> >>

\* re.sub(r'\.(pdf|docx?)$', '', t, flags=re.IGNORECASE)
StripSuffix(t) ==
    IF \E k \in 1..Len(TitleSuffixes) : EndsWithI(t, TitleSuffixes[k])
    THEN LET k == CHOOSE j \in 1..Len(TitleSuffixes) :
                      /\ EndsWithI(t, TitleSuffixes[j])
                      /\ \A h \in 1..(j - 1) : ~EndsWithI(t, TitleSuffixes[h])
         IN  SubSeq(t, 1, Len(t) - Len(TitleSuffixes[k]))
    ELSE t

\* _clean_title_text
CleanTitleText(text) ==
    LET t == StripSuffix(Collapse(text))
    IN  SubSeq(t, 1, Min2(Len(t), max_title_chars))

(***************************************************************************)
(* Fractions, used for frequencies and scores.                             *)
(***************************************************************************)
FracLess(a, b) == a.num * b.den < b.num * a.den

(***************************************************************************)
(* Stable sort by a two-part key, as sorted(..., key=lambda: (k1, k2))     *)
(* and list.sort(key=...).  Items are [k1, k2, val].                       *)
(***************************************************************************)
KeyLeq(a, b) == a.k1 < b.k1 \/ (a.k1 = b.k1 /\ a.k2 <= b.k2)

RECURSIVE InsertSorted(_, _)
\* insert e behind every item whose key is <= e's key
InsertSorted(sorted, e) ==
    IF sorted = <<>> THEN <<e>>
    ELSE IF KeyLeq(sorted[Len(sorted)], e) THEN Append(sorted, e)
    ELSE Append(InsertSorted(SubSeq(sorted, 1, Len(sorted) - 1), e), sorted[Len(sorted)])

RECURSIVE SortRec(_, _, _)
SortRec(items, i, acc) ==
    IF i > Len(items) THEN acc ELSE SortRec(items, i + 1, InsertSorted(acc, items[i]))

StableSort(items) == SortRec(items, 1, <<>>)

Vals(items) == [i \in 1..Len(items) |-> items[i].val]

(***************************************************************************)
(* Line Reconstructor: _group_by_line.                                     *)
(***************************************************************************)
\* sorted(chars, key=lambda c: (c['top'], c['x0']))
SortChars(cs) ==
    Vals(StableSort([i \in 1..Len(cs) |-> [k1 |-> cs[i].top, k2 |-> cs[i].x0, val |-> cs[i]]]))

\* the test that keeps a glyph on the current line
SameLine(c, current_y) == Abs(c.top - current_y) < line_threshold

\* the loop's last line is never appended
CloseLineDropped(ls, current) == ls

\* the final lines.append(current)
CloseLine(ls, current) == Append(ls, current)

RECURSIVE GroupRec(_, _, _, _, _)
\* the loop over chars[1:]
GroupRec(s, i, ls, current, current_y) ==
    IF i > Len(s) THEN CloseLine(ls, current)
    ELSE IF SameLine(s[i], current_y)
         THEN GroupRec(s, i + 1, ls, Append(current, s[i]), current_y)
         ELSE GroupRec(s, i + 1, Append(ls, current), <<s[i]>>, s[i].top)

GroupByLine(cs) ==
    IF cs = <<>> THEN <<>>
    ELSE LET s == SortChars(cs)
         IN  GroupRec(s, 2, <<>>, <<s[1]>>, s[1].top)

(***************************************************************************)
(* Per-line measures shared by the heading extractor and the title scorer. *)
(***************************************************************************)
\* ''.join(c['text'] for c in line).strip()
LineText(line) == Strip([i \in 1..Len(line) |-> line[i].text])

\* round(c['size'], 1), in tenths of a point; sizes are hundredths not ending in 5
Round1(size) == (size + 5) \div 10

MinTop(line) == CHOOSE y \in {line[i].top : i \in 1..Len(line)} :
                    \A i \in 1..Len(line) : y <= line[i].top
MinX0(line) == CHOOSE x \in {line[i].x0 : i \in 1..Len(line)} :
                    \A i \in 1..Len(line) : x <= line[i].x0
MaxX1(line) == CHOOSE x \in {line[i].x1 : i \in 1..Len(line)} :
                    \A i \in 1..Len(line) : x >= line[i].x1

RECURSIVE SumSizes(_, _)
SumSizes(line, i) == IF i > Len(line) THEN 0 ELSE line[i].size + SumSizes(line, i + 1)

CountOf(seq, v) == Cardinality({i \in 1..Len(seq) : seq[i] = v})

\* Counter(seq).most_common(1)[0][0]: the first-seen value of highest count
MostCommon(seq) ==
    LET best == CHOOSE i \in 1..Len(seq) :
                    /\ \A j \in 1..Len(seq) : CountOf(seq, seq[j]) <= CountOf(seq, seq[i])
                    /\ \A j \in 1..(i - 1) : CountOf(seq, seq[j]) < CountOf(seq, seq[i])
    IN  seq[best]

(***************************************************************************)
(* Font Statistics Aggregator: _analyze_font_statistics.  The mapping is a *)
(* sequence of [size, frequency] in insertion order (dict order); is_bold, *)
(* sample and positions are not read by any later stage.                   *)
(***************************************************************************)
RECURSIVE AllChars(_)
AllChars(pages) ==
    IF pages = <<>> THEN <<>> ELSE pages[1].chars \o AllChars(Tail(pages))

RECURSIVE FirstSeen(_, _, _)
\* the distinct values of seq in order of first occurrence
FirstSeen(seq, i, acc) ==
    IF i > Len(seq) THEN acc
    ELSE IF \E j \in 1..Len(acc) : acc[j] = seq[i]
         THEN FirstSeen(seq, i + 1, acc)
         ELSE FirstSeen(seq, i + 1, Append(acc, seq[i]))

AnalyzeFontStatistics(pages) ==
    LET cs    == AllChars(pages)
        sizes == [i \in 1..Len(cs) |-> Round1(cs[i].size)]
        keys  == FirstSeen(sizes, 1, <<>>)
        total == Len(cs)
    IN  [k \in 1..Len(keys) |->
            [size |-> keys[k],
             frequency |-> [num |-> CountOf(sizes, keys[k]), den |-> total]]]

(***************************************************************************)
(* Heading Font Classifier: _identify_heading_fonts.  The result is a      *)
(* function from rounded size to level label.                              *)
(***************************************************************************)
\* f"H{level}"
LevelLabel(level) == "H" \o ToString(level)

\* max(stats, key=lambda s: stats[s]['frequency']): first key of highest frequency
BodySize(st) ==
    LET best == CHOOSE i \in 1..Len(st) :
                    /\ \A j \in 1..Len(st) : ~FracLess(st[i].frequency, st[j].frequency)
                    /\ \A j \in 1..(i - 1) : FracLess(st[j].frequency, st[i].frequency)
    IN  st[best].size

RECURSIVE SortedDesc(_)
\* sorted(stats, reverse=True), of a set of distinct sizes
SortedDesc(S) ==
    IF S = {} THEN <<>>
    ELSE LET m == CHOOSE x \in S : \A y \in S : y <= x
         IN  <<m>> \o SortedDesc(S \ {m})

StatOf(st, size) == st[CHOOSE i \in 1..Len(st) : st[i].size = size]

\* the condition without its level bound
QualifiesUncapped(size, body_size, frequency, level) ==
    /\ size > body_size + font_size_threshold
    /\ FracLess(FreqLow, frequency)
    /\ FracLess(frequency, FreqHigh)

\* the condition with >= for the size test
QualifiesAtThreshold(size, body_size, frequency, level) ==
    /\ size >= body_size + font_size_threshold
    /\ FracLess(FreqLow, frequency)
    /\ FracLess(frequency, FreqHigh)
    /\ level <= max_heading_level

\* the condition of the if at line 117
Qualifies(size, body_size, frequency, level) ==
    /\ size > body_size + font_size_threshold
    /\ FracLess(FreqLow, frequency)
    /\ FracLess(frequency, FreqHigh)
    /\ level <= max_heading_level

RECURSIVE ClassifyRec(_, _, _, _, _, _)
\* the loop over sorted(stats, reverse=True)
ClassifyRec(st, order, i, body_size, level, headings) ==
    IF i > Len(order) THEN headings
    ELSE IF Qualifies(order[i], body_size, StatOf(st, order[i]).frequency, level)
         THEN ClassifyRec(st, order, i + 1, body_size, level + 1,
                          [s \in (DOMAIN headings) \cup {order[i]} |->
                              IF s = order[i] THEN LevelLabel(level) ELSE headings[s]])
         ELSE ClassifyRec(st, order, i + 1, body_size, level, headings)

IdentifyHeadingFonts(st) ==
    IF st = <<>> THEN <<>>
    ELSE ClassifyRec(st, SortedDesc({st[i].size : i \in 1..Len(st)}), 1,
                     BodySize(st), 1, <<>>)

(***************************************************************************)
(* Page Heading Extractor: _extract_page_headings.                         *)
(***************************************************************************)
RoundedSizes(line) == [i \in 1..Len(line) |-> Round1(line[i].size)]

\* the dict appended at lines 135-141
HeadingOf(line, text, hf, page_num) ==
    [level |-> hf[MostCommon(RoundedSizes(line))],
     text |-> CleanHeadingText(text),
     page |-> page_num,
     y_position |-> MinTop(line),
     font_size |-> MostCommon(RoundedSizes(line))]

RECURSIVE HeadingsRec(_, _, _, _, _)
\* the loop over the lines of one page
HeadingsRec(ls, i, hf, page_num, headings) ==
    IF i > Len(ls) THEN headings
    ELSE LET text == LineText(ls[i])
         IN  IF ~InHeadingBounds(Len(text))
             THEN HeadingsRec(ls, i + 1, hf, page_num, headings)
             ELSE IF MostCommon(RoundedSizes(ls[i])) \in DOMAIN hf
                  THEN HeadingsRec(ls, i + 1, hf, page_num,
                                   Append(headings, HeadingOf(ls[i], text, hf, page_num)))
                  ELSE HeadingsRec(ls, i + 1, hf, page_num, headings)

ExtractPageHeadings(page, hf, page_num) ==
    HeadingsRec(GroupByLine(page.chars), 1, hf, page_num, <<>>)

(***************************************************************************)
(* Title Candidate Scorer: _extract_title_from_page.  The score of a line  *)
(* is kept as the exact fraction num/den of 3000 * height * width * score. *)
(***************************************************************************)
Score(line, page_h, page_w) ==
    LET n == Len(line)
        y == MinTop(line)
        d == Abs(MinX0(line) + MaxX1(line) - page_w)
    IN  [num |-> SumSizes(line, 1) * page_h * page_w
                 + 900 * n * page_w * (page_h - y)
                 + 900 * n * page_h * (page_w - d),
         den |-> n]

RECURSIVE CandidatesRec(_, _, _, _, _)
CandidatesRec(ls, i, page_h, page_w, candidates) ==
    IF i > Len(ls) THEN candidates
    ELSE LET text == LineText(ls[i])
         IN  IF ~InHeadingBounds(Len(text))
             THEN CandidatesRec(ls, i + 1, page_h, page_w, candidates)
             ELSE CandidatesRec(ls, i + 1, page_h, page_w,
                      Append(candidates, [text |-> text, score |-> Score(ls[i], page_h, page_w)]))

\* max(candidates, key=lambda x: x[1]): the first candidate of highest score
BestCandidate(candidates) ==
    candidates[CHOOSE i \in 1..Len(candidates) :
                   /\ \A j \in 1..Len(candidates) :
                          ~FracLess(candidates[i].score, candidates[j].score)
                   /\ \A j \in 1..(i - 1) :
                          FracLess(candidates[j].score, candidates[i].score)]

ExtractTitleFromPage(page) ==
    LET all  == GroupByLine(page.chars)
        ls   == SubSeq(all, 1, Min2(Len(all), max_title_lines))
        cand == CandidatesRec(ls, 1, page.height, page.width, <<>>)
    IN  IF cand = <<>> THEN <<>>
        \* ZeroDivisionError, caught at lines 194-196
        ELSE IF page.height = 0 \/ page.width = 0 THEN <<>>
        ELSE CleanTitleText(BestCandidate(cand).text)

(***************************************************************************)
(* The stages.  A stage body yields [raised, value]; raised stands for an  *)
(* exception leaving the try block.                                        *)
(***************************************************************************)
EmptyResult == [title |-> <<>>, outline |-> <<>>]

Caught(r) == IF r.raised THEN [raised |-> FALSE, value |-> EmptyResult] ELSE r

RECURSIVE TocOutline(_, _, _)
\* the list comprehension at lines 53-56
TocOutline(toc, i, outline) ==
    IF i > Len(toc) THEN outline
    ELSE IF toc[i].level <= max_toc_level /\ CleanHeadingText(toc[i].text) # <<>>
         THEN TocOutline(toc, i + 1,
                  Append(outline, [level |-> LevelLabel(toc[i].level),
                                   text |-> CleanHeadingText(toc[i].text),
                                   page |-> toc[i].page]))
         ELSE TocOutline(toc, i + 1, outline)

\* the try block of _extract_pymupdf_outline; fails: pymupdf raises
PymupdfOutlineBody(d, fails) ==
    IF fails THEN [raised |-> TRUE, value |-> EmptyResult]
    ELSE [raised |-> FALSE,
          value |-> [title |-> CleanTitleText(d.title),
                     outline |-> TocOutline(d.toc, 1, <<>>)]]

ExtractPymupdfOutline(d, fails) == Caught(PymupdfOutlineBody(d, fails))

RECURSIVE AllHeadings(_, _, _, _)
\* the loop over enumerate(pdf.pages, 1)
AllHeadings(pages, idx, hf, outline) ==
    IF idx > Len(pages) THEN outline
    ELSE AllHeadings(pages, idx + 1, hf, outline \o ExtractPageHeadings(pages[idx], hf, idx))

\* outline.sort(key=lambda x: (x["page"], x["y_position"]))
SortOutline(outline) ==
    Vals(StableSort([i \in 1..Len(outline) |->
            [k1 |-> outline[i].page, k2 |-> outline[i].y_position, val |-> outline[i]]]))

\* the try block of _extract_font_based_outline; fails: pdfplumber raises
FontBasedOutlineBody(d, fails) ==
    IF fails THEN [raised |-> TRUE, value |-> EmptyResult]
    ELSE LET hf == IdentifyHeadingFonts(AnalyzeFontStatistics(d.pages))
         IN  [raised |-> FALSE,
              value |-> [title |-> IF d.pages # <<>> THEN ExtractTitleFromPage(d.pages[1])
                                   ELSE <<>>,
                         outline |-> SortOutline(AllHeadings(d.pages, 1, hf, <<>>))]]

\* the stage without its except clause
ExtractFontBasedOutlineUncaught(d, fails) == FontBasedOutlineBody(d, fails)

ExtractFontBasedOutline(d, fails) == Caught(FontBasedOutlineBody(d, fails))

\* _extract_title; docFails: pymupdf.open raises, pdfFails: pdfplumber.open raises.
\* raised records that the except clause at lines 171-173 ran.
ExtractTitle(d, docFails, pdfFails) ==
    IF docFails THEN [raised |-> TRUE, value |-> <<>>]
    ELSE IF d.title # <<>> THEN [raised |-> FALSE, value |-> CleanTitleText(d.title)]
    ELSE IF pdfFails THEN [raised |-> TRUE, value |-> <<>>]
    ELSE [raised |-> FALSE,
          value |-> IF d.pages # <<>> THEN ExtractTitleFromPage(d.pages[1]) ELSE <<>>]

(***************************************************************************)
(* Documents.  What pymupdf and pdfplumber hand to the extractor: the      *)
(* embedded outline, the metadata title and the glyphs of each page.       *)
(***************************************************************************)
MaxToc == 2
PageHeight == 20
PageWidth == 20

\* the glyphs of one row of text: unit-wide glyphs from x0 rightwards
MkLine(text, top, x0, size, idBase) ==
    [i \in 1..Len(text) |->
        [id |-> idBase + i, text |-> text[i], x0 |-> x0 + i - 1, x1 |-> x0 + i,
         top |-> top, size |-> size]]

BodyText == [i \in 1..20 |-> "x"]

TitledPage ==
    [chars |-> MkLine(BodyText, 10, 0, 1004, 100)
               \o MkLine(<<"a","b"," ","1">>, 5, 0, 1596, 200)
               \o MkLine(<<"D","o","c">>, 0, 8, 2400, 300),
     height |-> PageHeight, width |-> PageWidth]

SecondPage ==
    [chars |-> MkLine(<<"P","a","r","t"," ","2">>, 0, 0, 1404, 400)
               \o MkLine(BodyText, 5, 0, 1004, 500)
               \o MkLine(BodyText, 10, 0, 1004, 600),
     height |-> PageHeight, width |-> PageWidth]

PlainPage ==
    [chars |-> MkLine(BodyText, 0, 0, 1004, 700) \o MkLine(<<"x", "x">>, 10, 0, 1004, 800),
     height |-> PageHeight, width |-> PageWidth]

BlankPage == [chars |-> <<>>, height |-> PageHeight, width |-> PageWidth]

PagePool == { <<>>, <<BlankPage>>, <<PlainPage>>, <<TitledPage, SecondPage>> }

TocEntries ==
    { [level |-> 1, text |-> <<"I","n","t","r","o">>, page |-> 1],
      [level |-> 2, text |-> <<"a","b"," ","1","2">>, page |-> 2],
      [level |-> 1, text |-> <<"P","a","r","t"," ","1">>, page |-> 1],
      [level |-> 4, text |-> <<"D","e","e","p">>, page |-> 3] }

TocPool == UNION { [1..n -> TocEntries] : n \in 0..MaxToc }

MetaTitles == { <<>>, <<" ">>, <<".","p","d","f">>, <<"M","y"," "," ","D","o","c",".","P","D","F">> }

Docs == { [toc |-> t, title |-> m, pages |-> p] : t \in TocPool, m \in MetaTitles, p \in PagePool }

(***************************************************************************)
(* Extraction Orchestrator: extract_outline, and the write of process_pdfs.*)
(***************************************************************************)
NoRun == [title |-> <<>>, outline |-> <<>>]

IdleClean == cleanIn = <<>> /\ cleanOut = <<>> /\ cleanTwice = <<>>
IdleFonts == stats = <<>> /\ heading_fonts = <<>>
IdleLines == chars = <<>> /\ lines = <<>>
IdleOrch ==
    /\ doc = [toc |-> <<>>, title |-> <<>>, pages |-> <<>>]
    /\ embedded = NoRun /\ result = NoRun
    /\ stagesRun = {} /\ raised = {} /\ artifact = NoRun

Init ==
    /\ pc = "embedded"
    /\ doc \in Docs
    /\ embedded = NoRun
    /\ result = NoRun
    /\ stagesRun = {}
    /\ raised = {}
    /\ artifact = NoRun
    /\ IdleClean /\ IdleFonts /\ IdleLines

\* lines 33-35; a stage that lets its exception out lands in the except of lines 42-44
TryEmbeddedOutline ==
    /\ pc = "embedded"
    /\ \E fails \in BOOLEAN :
        LET r == ExtractPymupdfOutline(doc, fails)
        IN  /\ stagesRun' = stagesRun \cup {"embedded"}
            /\ raised' = IF fails THEN raised \cup {"embedded"} ELSE raised
            /\ embedded' = r.value
            /\ result' = r.value
            /\ pc' = IF r.raised THEN "done"
                     ELSE IF r.value.outline = <<>> THEN "font" ELSE "title"
    /\ UNCHANGED <<doc, artifact, cleanVars, fontVars, lineVars>>

\* line 36
TryFontBased ==
    /\ pc = "font"
    /\ \E fails \in BOOLEAN :
        LET r == ExtractFontBasedOutline(doc, fails)
        IN  /\ stagesRun' = stagesRun \cup {"font"}
            /\ raised' = IF fails THEN raised \cup {"font"} ELSE raised
            /\ result' = r.value
            /\ pc' = IF r.raised THEN "done" ELSE "title"
    /\ UNCHANGED <<doc, embedded, artifact, cleanVars, fontVars, lineVars>>

\* lines 37-38 when the title is empty, then the return of line 41
TryTitle ==
    /\ pc = "title"
    /\ result.title = <<>>
    /\ \E docFails \in BOOLEAN, pdfFails \in BOOLEAN :
        LET r == ExtractTitle(doc, docFails, pdfFails)
        IN  /\ stagesRun' = stagesRun \cup {"title"}
            /\ raised' = IF r.raised THEN raised \cup {"title"} ELSE raised
            /\ result' = [result EXCEPT !.title = r.value]
    /\ pc' = "done"
    /\ UNCHANGED <<doc, embedded, artifact, cleanVars, fontVars, lineVars>>

\* line 37 when the title is set, then the return of line 41
ReturnOutline ==
    /\ pc = "title"
    /\ result.title # <<>>
    /\ pc' = "done"
    /\ UNCHANGED <<orchVars, cleanVars, fontVars, lineVars>>

\* process_pdfs, lines 225-227: json.dump(result)
WriteArtifact ==
    /\ pc = "done"
    /\ artifact' = result
    /\ pc' = "written"
    /\ UNCHANGED <<doc, embedded, result, stagesRun, raised, cleanVars, fontVars, lineVars>>

Next == TryEmbeddedOutline \/ TryFontBased \/ TryTitle \/ ReturnOutline \/ WriteArtifact

Spec == Init /\ [][Next]_vars

(***************************************************************************)
(* Text Cleaner on its own: _clean_heading_text applied to a text and then *)
(* to its own result.                                                      *)
(***************************************************************************)
MaxTokens == 4

Tokens == { <<"P","a","r","t">>, <<" ">>, <<"1">>, <<".">>, <<"a","b">>,
            <<"O","v","e","r","v","i","e","w">> }

ExampleText == <<"C","h","a","p","t","e","r"," ","3","."," ",
                 "O","v","e","r","v","i","e","w"," ","1","2">>

RECURSIVE Flatten(_)
Flatten(ts) == IF ts = <<>> THEN <<>> ELSE ts[1] \o Flatten(Tail(ts))

CleanInputs ==
    { Flatten(ts) : ts \in UNION { [1..n -> Tokens] : n \in 0..MaxTokens } }
    \cup { ExampleText }

InitClean ==
    /\ pc = "clean"
    /\ cleanIn \in CleanInputs
    /\ cleanOut = <<>>
    /\ cleanTwice = <<>>
    /\ IdleOrch /\ IdleFonts /\ IdleLines

CleanHeading ==
    /\ pc = "clean"
    /\ cleanOut' = CleanHeadingText(cleanIn)
    /\ pc' = "cleaned"
    /\ UNCHANGED <<cleanIn, cleanTwice, orchVars, fontVars, lineVars>>

CleanAgain ==
    /\ pc = "cleaned"
    /\ cleanTwice' = CleanHeadingText(cleanOut)
    /\ pc' = "recleaned"
    /\ UNCHANGED <<cleanIn, cleanOut, orchVars, fontVars, lineVars>>

NextClean == CleanHeading \/ CleanAgain

SpecClean == InitClean /\ [][NextClean]_vars

(***************************************************************************)
(* Heading Font Classifier on its own: _identify_heading_fonts applied to  *)
(* a FontSizeStat mapping.                                                 *)
(***************************************************************************)
MaxStats == 5

StatSizes == {100, 130, 140, 150, 160}

StatFrequencies == { [num |-> n, den |-> 10000] : n \in {10, 200, 500, 1000, 8000} }

\* a mapping over the sizes DOMAIN f, inserted in ascending or descending size order
MkStats(f, ascending) ==
    LET d == SortedDesc(DOMAIN f)
        n == Len(d)
        o == [i \in 1..n |-> IF ascending THEN d[n + 1 - i] ELSE d[i]]
    IN  [i \in 1..n |-> [size |-> o[i], frequency |-> f[o[i]]]]

StatsPool ==
    UNION { { MkStats(f, ascending) : f \in [S -> StatFrequencies], ascending \in BOOLEAN } :
              S \in { T \in SUBSET StatSizes : Cardinality(T) <= MaxStats } }

InitFonts ==
    /\ pc = "stats"
    /\ stats \in StatsPool
    /\ heading_fonts = <<>>
    /\ IdleOrch /\ IdleClean /\ IdleLines

IdentifyFonts ==
    /\ pc = "stats"
    /\ heading_fonts' = IdentifyHeadingFonts(stats)
    /\ pc' = "classified"
    /\ UNCHANGED <<stats, orchVars, cleanVars, lineVars>>

NextFonts == IdentifyFonts

SpecFonts == InitFonts /\ [][NextFonts]_vars

(***************************************************************************)
(* Line Reconstructor on its own: _group_by_line applied to the glyphs of  *)
(* a page.                                                                 *)
(***************************************************************************)
MaxGlyphs == 3

GlyphTops == {0, 4, 5, 8}
GlyphX0s == {0, 3}

GlyphSeqs ==
    UNION { { [i \in 1..n |-> [id |-> i, text |-> "x", x0 |-> f[i][2], x1 |-> f[i][2] + 1,
                               top |-> f[i][1], size |-> 1004]] :
                f \in [1..n -> GlyphTops \X GlyphX0s] } : n \in 0..MaxGlyphs }

InitLines ==
    /\ pc = "chars"
    /\ chars \in GlyphSeqs
    /\ lines = <<>>
    /\ IdleOrch /\ IdleClean /\ IdleFonts

GroupLines ==
    /\ pc = "chars"
    /\ lines' = GroupByLine(chars)
    /\ pc' = "grouped"
    /\ UNCHANGED <<chars, orchVars, cleanVars, fontVars>>

NextLines == GroupLines

SpecLines == InitLines /\ [][NextLines]_vars

(***************************************************************************)
(* Properties.                                                             *)
(***************************************************************************)
Finished == pc \in {"done", "written"}

IsText(t) == DOMAIN t = 1..Len(t) /\ \A i \in 1..Len(t) : t[i] \in STRING

PageTitle(d) == IF d.pages # <<>> THEN ExtractTitleFromPage(d.pages[1]) ELSE <<>>

\* C1: extract_outline never fails.  A stage that raises yields the empty
\* result, the next stage still runs (the font stage after a failed embedded
\* stage, the title stage after a failed font stage), the returned value has a
\* text title and a list outline, and when all three stages fail the result is
\* exactly title "" and outline [].
C1_NeverFails ==
    /\ Finished => /\ DOMAIN result = {"title", "outline"}
                   /\ IsText(result.title)
                   /\ DOMAIN result.outline = 1..Len(result.outline)
    /\ "embedded" \in raised => /\ embedded = EmptyResult
                                /\ pc = "font" \/ "font" \in stagesRun
    /\ "font" \in raised => /\ pc = "title" \/ "title" \in stagesRun
                            /\ pc = "title" => result = EmptyResult
    /\ (Finished /\ raised = {"embedded", "font", "title"}) => result = EmptyResult

C1_AllStagesFail ==
    /\ pc = "done"
    /\ raised = {"embedded", "font", "title"}
    /\ stagesRun = {"embedded", "font", "title"}
    /\ result = EmptyResult

\* C2: when the title stage runs (and does not raise), the returned title is
\* the first non-empty of the cleaned metadata title and the first-page
\* scored title.
C2_FirstNonEmptyWins ==
    (Finished /\ "title" \in stagesRun /\ "title" \notin raised) =>
        result.title = IF CleanTitleText(doc.title) # <<>>
                       THEN CleanTitleText(doc.title)
                       ELSE PageTitle(doc)

\* C3: when the embedded stage gave an empty outline but a non-empty metadata
\* title and the font-based stage ran, the returned title is that metadata
\* title.
C3_KeepsMetadataTitle ==
    (Finished /\ raised = {} /\ "font" \in stagesRun
       /\ embedded.outline = <<>> /\ embedded.title # <<>>) =>
        result.title = embedded.title

\* C4: every outline entry of the returned result and of the written artifact
\* has exactly the fields level, text and page.
C4_EnvelopeFields ==
    /\ Finished => \A i \in 1..Len(result.outline) :
                       DOMAIN result.outline[i] = {"level", "text", "page"}
    /\ pc = "written" => \A i \in 1..Len(artifact.outline) :
                             DOMAIN artifact.outline[i] = {"level", "text", "page"}

\* C5: every outline entry's text has a length within min_heading_chars and
\* max_heading_chars.
C5_TextWithinBounds ==
    Finished => \A i \in 1..Len(result.outline) :
                    InHeadingBounds(Len(result.outline[i].text))

\* C6: _clean_heading_text is idempotent, and it turns
\* "Chapter 3. Overview 12" into "Overview".
C6_CleanIdempotent ==
    /\ pc = "recleaned" => cleanTwice = cleanOut
    /\ (pc # "clean" /\ cleanIn = ExampleText) =>
           cleanOut = <<"O","v","e","r","v","i","e","w">>

LevelRank(label) == CHOOSE n \in 1..max_heading_level : LevelLabel(n) = label

\* C7: _identify_heading_fonts assigns at most 3 levels, each label at most
\* once, and a higher level (H1 above H2 above H3) has a strictly larger size.
C7_LevelsMonotonic ==
    pc = "classified" =>
        /\ Cardinality(DOMAIN heading_fonts) <= 3
        /\ \A s \in DOMAIN heading_fonts : heading_fonts[s] \in {"H1", "H2", "H3"}
        /\ \A s1, s2 \in DOMAIN heading_fonts :
               s1 # s2 => heading_fonts[s1] # heading_fonts[s2]
        /\ \A s1, s2 \in DOMAIN heading_fonts :
               LevelRank(heading_fonts[s1]) < LevelRank(heading_fonts[s2]) => s1 > s2

C7_FourthSizeLeftOut ==
    /\ pc = "classified"
    /\ Cardinality(DOMAIN heading_fonts) = 3
    /\ \E i \in 1..Len(stats) :
           /\ stats[i].size \notin DOMAIN heading_fonts
           /\ stats[i].size > BodySize(stats) + font_size_threshold
           /\ FracLess(FreqLow, stats[i].frequency)
           /\ FracLess(stats[i].frequency, FreqHigh)

\* sizes of highest frequency
MaxFrequencySizes(st) ==
    { st[i].size : i \in { k \in 1..Len(st) :
          \A j \in 1..Len(st) : ~FracLess(st[k].frequency, st[j].frequency) } }

\* sizes more than 2.0 above body size b whose frequency is strictly between 0.001 and 0.1
QualifyingSizes(st, b) ==
    { st[i].size : i \in { k \in 1..Len(st) :
          /\ st[k].size > b + 20
          /\ st[k].frequency.num * 1000 > st[k].frequency.den
          /\ st[k].frequency.num * 10 < st[k].frequency.den } }

\* the three largest qualifying sizes, labelled by descending size
LargestQualifying(st, b) ==
    LET Q == QualifyingSizes(st, b)
        Above(s) == Cardinality({ q \in Q : q > s })
    IN  [s \in { q \in Q : Above(q) < 3 } |-> LevelLabel(Above(s) + 1)]

StatsAsSet(st) == { <<st[i].size, st[i].frequency>> : i \in 1..Len(st) }

ExampleStats == { <<100, [num |-> 8000, den |-> 10000]>>,
                  <<160, [num |-> 200, den |-> 10000]>>,
                  <<140, [num |-> 500, den |-> 10000]>> }

\* C8: the map returned by _identify_heading_fonts is exactly the (up to
\* three) largest sizes s with s > body_size + 2.0 and 0.001 < frequency(s) < 0.1,
\* body_size being a size of highest frequency, labelled H1, H2, H3 by
\* descending size; an empty mapping gives the empty map; sizes 10 (0.8),
\* 16 (0.02), 14 (0.05) give {16: H1, 14: H2}.
C8_LargestQualifyingSizes ==
    pc = "classified" =>
        /\ stats = <<>> => heading_fonts = <<>>
        /\ stats # <<>> => \E b \in MaxFrequencySizes(stats) :
                               heading_fonts = LargestQualifying(stats, b)
        /\ StatsAsSet(stats) = ExampleStats =>
               heading_fonts = (160 :> "H1" @@ 140 :> "H2")

C8_ExampleClassified ==
    /\ pc = "classified"
    /\ StatsAsSet(stats) = ExampleStats
    /\ DOMAIN heading_fonts = {140, 160}

\* C9: the lines returned by _group_by_line partition the input glyphs: every
\* line is non-empty, no glyph occurs twice, every input glyph occurs, and no
\* glyphs give no lines.
C9_LinesPartition ==
    pc = "grouped" =>
        LET flat == Flatten(lines)
        IN  /\ \A i \in 1..Len(lines) : lines[i] # <<>>
            /\ Len(flat) = Len(chars)
            /\ \A i, j \in 1..Len(flat) : flat[i].id = flat[j].id => i = j
            /\ { flat[i] : i \in 1..Len(flat) } = { chars[i] : i \in 1..Len(chars) }
            /\ chars = <<>> => lines = <<>>

C9_TwoLines ==
    /\ pc = "grouped"
    /\ Len(chars) = 3
    /\ Len(lines) = 2
    /\ \E i \in 1..Len(lines) : Len(lines[i]) = 2

\* C10: within every line returned by _group_by_line, consecutive glyphs have
\* non-decreasing x0.
C10_LeftToRight ==
    pc = "grouped" =>
        \A i \in 1..Len(lines) : \A j \in 1..(Len(lines[i]) - 1) :
            lines[i][j].x0 <= lines[i][j + 1].x0

====
